---- MODULE Spec2Model ----
(***************************************************************************)
(* The instrument store of vn-stocks (src/market.py, class MarketData):    *)
(* one JSON document per stock symbol, read and written by coroutines     *)
(* that run on one asyncio event loop.                                     *)
(*                                                                         *)
(* Scheduling.  The coroutines are cooperative: a coroutine keeps the      *)
(* event loop until it awaits something that is not ready.  The only       *)
(* awaits of market.py are the calls of _read_stock_data and               *)
(* _write_stock_data and, inside them, `async with self._lock`.  Awaiting  *)
(* a coroutine runs it inline; asyncio.Lock.acquire returns at once when   *)
(* the lock is free and nobody waits, and suspends the caller otherwise;   *)
(* open, json.load and json.dump are blocking calls.  Each coroutine is    *)
(* modelled step by step (one step per statement that touches the lock,    *)
(* the file system or the local `data`), and the loop hands control to     *)
(* another coroutine only when the running one finishes or suspends in     *)
(* Acquire.                                                                *)
(***************************************************************************)
EXTENDS Integers, Sequences, FiniteSets, TLC

\* ------------------------------------------------------------- bounds
\* number of store calls issued in one behaviour
MaxCalls == 3
\* number of calls that may be pending (issued, not yet run) at one time
MaxPending == 2
\* readings of datetime.utcnow() run from 0 to MaxClock
MaxClock == 1
\* number of durable writes that may fail in one behaviour
MaxFaults == 1
\* config.PRICE_HISTORY_MAX, the history cap H (config.py sets it)
PRICE_HISTORY_MAX == 2
\* number of timer firings (ticks) in one behaviour
MaxTicks == 1
\* number of events that reach the running bot beside its timer: messages,
\* administrative calls, start and stop of the price engine
MaxEvents == 2

\* ------------------------------------------------------ configuration
\* config.TEAMS, in its insertion order (the order `for symbol in
\* config.TEAMS` visits)
TeamOrder == <<"AAA", "BBB">>

TeamSymbols == {TeamOrder[i] : i \in 1..Len(TeamOrder)}

TEAMS ==
    [s \in TeamSymbols |->
        IF s = "AAA"
        THEN [name |-> "Alpha", starting_price |-> 3, volatility |-> "lo"]
        ELSE [name |-> "Beta", starting_price |-> 4, volatility |-> "hi"]]

\* a symbol that is not a key of config.TEAMS
UnknownSymbol == "ZZZ"

Symbols == TeamSymbols \cup {UnknownSymbol}

\* the new_price arguments that callers pass: update_price takes any int
Prices == {-1, 1, 2}

\* the limit arguments of get_price_history: None (the default), 0, 1 and
\* a number larger than any history the store holds
NoLimit == [given |-> FALSE, n |-> 0]

Limit(n) == [given |-> TRUE, n |-> n]

Limits == {NoLimit, Limit(0), Limit(1), Limit(PRICE_HISTORY_MAX + 2)}

\* ------------------------------------------------------------- values
\* Python's None
NoneVal == [kind |-> "none"]

\* os.path.exists(stock_file) is False
AbsentFile == [kind |-> "absent"]

\* the file exists and json.load raises JSONDecodeError on it
CorruptFile == [kind |-> "corrupt"]

IsDoc(x) == x.kind = "doc"

Sample(ts, p) == [timestamp |-> ts, price |-> p]

\* the slice h[-n:] of a Python list
PySuffix(h, n) ==
    LET start == IF n > 0
                 THEN (IF Len(h) - n > 0 THEN Len(h) - n ELSE 0)
                 ELSE (IF -n < Len(h) THEN -n ELSE Len(h))
    IN SubSeq(h, start + 1, Len(h))

\* the document initialize creates for a symbol
NewStockData(symbol, ts) ==
    [kind |-> "doc",
     team_name |-> TEAMS[symbol].name,
     symbol |-> symbol,
     starting_price |-> TEAMS[symbol].starting_price,
     current_price |-> TEAMS[symbol].starting_price,
     volatility |-> TEAMS[symbol].volatility,
     price_history |-> <<Sample(ts, TEAMS[symbol].starting_price)>>]

\* json.load of the file, with the except clause of _read_stock_data
ReadStockData(f) == IF IsDoc(f) THEN f ELSE NoneVal

\* mutant of TrimHistory: the slice [:MAX] keeps the oldest entries
TrimHistoryKeepOldest(h) ==
    IF Len(h) > PRICE_HISTORY_MAX THEN SubSeq(h, 1, PRICE_HISTORY_MAX) ELSE h

\* update_price: "Trim history if too long"
TrimHistory(h) ==
    IF Len(h) > PRICE_HISTORY_MAX THEN PySuffix(h, PRICE_HISTORY_MAX) ELSE h

\* mutant of UpdatedData: the sample is appended, current_price is not set
UpdatedDataStalePrice(data, new_price, ts) ==
    [data EXCEPT !.price_history =
                     IF Len(@) + 1 > PRICE_HISTORY_MAX
                     THEN PySuffix(Append(@, Sample(ts, new_price)),
                                   PRICE_HISTORY_MAX)
                     ELSE Append(@, Sample(ts, new_price))]

\* mutant of UpdatedData: current_price is set, no sample is appended
UpdatedDataNoAppend(data, new_price, ts) ==
    [data EXCEPT !.current_price = new_price]

\* mutant of UpdatedData: the new price becomes the starting price too
UpdatedDataRebased(data, new_price, ts) ==
    [data EXCEPT !.current_price = new_price,
                 !.starting_price = new_price,
                 !.price_history = TrimHistory(Append(@, Sample(ts, new_price)))]

\* mutant of UpdatedData: the sample is inserted at the front of the list
UpdatedDataPrepend(data, new_price, ts) ==
    [data EXCEPT !.current_price = new_price,
                 !.price_history =
                     TrimHistory(<<Sample(ts, new_price)>> \o @)]

\* update_price: the new value of the local `data`
UpdatedData(data, new_price, ts) ==
    [data EXCEPT !.current_price = new_price,
                 !.price_history = TrimHistory(Append(@, Sample(ts, new_price)))]

\* mutant of ResetData: the reset starts the history afresh
ResetDataClearHistory(data, symbol, ts) ==
    [data EXCEPT !.current_price = TEAMS[symbol].starting_price,
                 !.price_history =
                     <<Sample(ts, TEAMS[symbol].starting_price)>>]

\* reset_prices: the new value of the local `data` of one symbol
ResetData(data, symbol, ts) ==
    [data EXCEPT !.current_price = TEAMS[symbol].starting_price,
                 !.price_history =
                     Append(@, Sample(ts, TEAMS[symbol].starting_price))]

\* get_price: its return value for the `data` it read
PriceOf(data) ==
    IF IsDoc(data) THEN [kind |-> "int", v |-> data.current_price] ELSE NoneVal

\* get_price_history: its return value for the `data` it read
HistoryOf(data, lim) ==
    IF ~IsDoc(data) THEN <<>>
    ELSE IF lim.given /\ lim.n # 0 THEN PySuffix(data.price_history, lim.n)
    ELSE data.price_history

\* ---------------------------------------------------- activity scores
\* config.ACTIVITY_DECAY, the decay factor d = DecayNum / DecayDen
DecayNum == 1

DecayDen == 2

RECURSIVE Pow(_, _)
Pow(b, e) == IF e = 0 THEN 1 ELSE b * Pow(b, e - 1)

\* a score is the number num / DecayDen^exp, written with the least exp
RECURSIVE Lowest(_)
Lowest(q) ==
    IF q.num = 0 THEN [num |-> 0, exp |-> 0]
    ELSE IF q.exp > 0 /\ q.num % DecayDen = 0
    THEN Lowest([num |-> q.num \div DecayDen, exp |-> q.exp - 1])
    ELSE q

\* the score that is the integer n
Score(n) == [num |-> n, exp |-> 0]

\* score + 1
PlusOne(q) == Lowest([num |-> q.num + Pow(DecayDen, q.exp), exp |-> q.exp])

\* score * config.ACTIVITY_DECAY
TimesDecay(q) == Lowest([num |-> q.num * DecayNum, exp |-> q.exp + 1])

\* {symbol: 0 for symbol in config.TEAMS.keys()}
NewActivityScores == [s \in TeamSymbols |-> Score(0)]

\* mutant of IncrementActivity: no membership test, a new key is created
IncrementActivityAnyKey(scores, symbol) ==
    [s \in DOMAIN scores \cup {symbol} |->
        IF s = symbol
        THEN (IF s \in DOMAIN scores THEN PlusOne(scores[s]) ELSE Score(1))
        ELSE scores[s]]

\* increment_activity: the new value of self.activity_scores
IncrementActivity(scores, symbol) ==
    IF symbol \in DOMAIN scores
    THEN [scores EXCEPT ![symbol] = PlusOne(@)]
    ELSE scores

\* get_activity_score: self.activity_scores.get(symbol, 0)
GetActivityScore(scores, symbol) ==
    IF symbol \in DOMAIN scores THEN scores[symbol] ELSE Score(0)

\* mutant of DecayActivity: the factor is applied twice
DecayActivityTwice(scores) ==
    [s \in DOMAIN scores |-> TimesDecay(TimesDecay(scores[s]))]

\* decay_activity: the new value of self.activity_scores
DecayActivity(scores) == [s \in DOMAIN scores |-> TimesDecay(scores[s])]

\* -------------------------------------------------------------- state
VARIABLES
    files,      \* data_dir: symbol -> AbsentFile, CorruptFile or a document
    lock,       \* self._lock._locked
    waiters,    \* self._lock._waiters: the coroutines suspended in acquire
    pending,    \* the calls that are issued and have not begun to run
    cur,        \* the coroutine that has the event loop (IdleTask: none)
    issued,     \* number of calls issued so far
    now,        \* the last reading of datetime.utcnow()
    faults,     \* durable writes that have failed so far
    log,        \* history variable: per symbol, one entry per completed
                \* durable write, oldest first: the call (op, price), whether
                \* an update_price of the symbol was pending beside it
                \* (raced), and the document it persisted (doc)
    activity_scores,  \* self.activity_scores: symbol -> score
    simulator,  \* the price engine: running, its active tick timers, and
                \* (history) whether the last start / stop call was redundant
    tick,       \* the tick in flight (pc "idle": none)
    used,       \* numbers so far of timer firings (ticks) and of the
                \* other events that reached the running bot (events), and
                \* whether an increment_activity call for an untracked
                \* symbol was among them (ignored), and a message that
                \* on_message returned early on (dropped)
    trace       \* history variable: per tracked symbol, the increments
                \* before any decay (n), the decays (k), and whether an
                \* increment followed a decay (late), since the last reset

\* the state of the activity tracker and of the price engine
engineVars == <<activity_scores, simulator, tick, used, trace>>

vars == <<files, lock, waiters, pending, cur, issued, now, faults, log,
          engineVars>>

\* a coroutine: the call (op, sym, price, lim), its position pc, the index
\* idx of its loop over config.TEAMS, its local `data`, its result so far
\* out; wrote / err: its _write_stock_data has returned / has raised;
\* woken: its acquire has been woken by a release
IdleTask ==
    [st |-> "idle", op |-> "none", sym |-> UnknownSymbol, price |-> 0,
     lim |-> NoLimit, pc |-> "none", idx |-> 0, data |-> NoneVal,
     out |-> NoneVal, wrote |-> FALSE, err |-> FALSE, woken |-> FALSE]

BatchOps == {"initialize", "reset_prices", "get_all_prices", "get_all_stocks"}

Call(op, sym, price, lim) == [op |-> op, sym |-> sym, price |-> price, lim |-> lim]

\* the calls the rest of the bot makes on market.market
Calls ==
    {Call("initialize", TeamOrder[1], 0, NoLimit),
     Call("reset_prices", TeamOrder[1], 0, NoLimit),
     Call("get_all_prices", TeamOrder[1], 0, NoLimit),
     Call("get_all_stocks", TeamOrder[1], 0, NoLimit)}
    \cup {Call("update_price", s, p, NoLimit) : s \in Symbols, p \in Prices}
    \cup {Call("get_price", s, 0, NoLimit) : s \in Symbols}
    \cup {Call("get_stock_info", s, 0, NoLimit) : s \in TeamSymbols}
    \cup {Call("get_price_history", s, 0, l) : s \in TeamSymbols, l \in Limits}

\* the first statement of each coroutine
EntryPc(op) == IF op = "initialize" THEN "check" ELSE "read"

\* the coroutine object of call c, not yet started
NewTask(c) ==
    [IdleTask EXCEPT !.st = "ready", !.op = c.op, !.sym = c.sym,
                     !.price = c.price, !.lim = c.lim,
                     !.idx = IF c.op \in BatchOps THEN 1 ELSE 0,
                     !.pc = EntryPc(c.op)]

Running == cur.st = "running"

\* the coroutines the loop can run next: the pending calls and the
\* waiters a release has woken
Runnable ==
    pending \cup {waiters[i] : i \in {j \in DOMAIN waiters : waiters[j].woken}}

\* the next iteration of `for symbol in config.TEAMS`, or the return
Advance(r) ==
    IF r.idx < Len(TeamOrder)
    THEN [r EXCEPT !.idx = @ + 1, !.sym = TeamOrder[r.idx + 1],
                   !.pc = EntryPc(r.op), !.data = NoneVal]
    ELSE [r EXCEPT !.pc = "ret", !.data = NoneVal]

\* where a coroutine continues when _read_stock_data has returned
AfterRead(r) ==
    IF r.op \in {"update_price", "reset_prices"}
    THEN [r EXCEPT !.pc = "modify"]
    ELSE [r EXCEPT !.pc = "result"]

\* mutant of AfterWrite: the exception of a failed write is swallowed
\* (try / except: pass around _write_stock_data)
AfterWriteSwallowed(r) ==
    IF r.op = "update_price" THEN [r EXCEPT !.pc = "ret", !.data = NoneVal]
    ELSE Advance(r)

\* where a coroutine continues when _write_stock_data has returned or raised
AfterWrite(r) ==
    IF r.err THEN [r EXCEPT !.pc = "raise", !.data = NoneVal]
    ELSE IF r.op = "update_price" THEN [r EXCEPT !.pc = "ret", !.data = NoneVal]
    ELSE Advance(r)

\* the price of the sample a writing call appends
CallPrice(r) ==
    IF r.op = "update_price" THEN r.price ELSE TEAMS[r.sym].starting_price

\* an update_price for the same symbol is pending beside the coroutine r
Raced(r) ==
    \E q \in Runnable : q.op = "update_price" /\ q.sym = r.sym

\* what datetime.utcnow() may return: the clock stands or has moved on
ClockReadings == {ts \in {now, now + 1} : ts <= MaxClock}

\* no tick is in flight.  A tick: its position pc, the index idx of its
\* loop over config.TEAMS, the symbols whose update_price has returned
\* (wrote) or raised (failed) in it, and whether an increment_activity
\* call arrived while it was in flight (heard)
IdleTick ==
    [pc |-> "idle", idx |-> 0, wrote |-> {}, failed |-> {}, heard |-> FALSE]

NoTrace == [n |-> 0, k |-> 0, late |-> FALSE]

\* the tracker and the engine as the import of market and
\* market_simulator leaves them: all scores 0, the engine stopped
InitEngine ==
    /\ activity_scores = NewActivityScores
    /\ simulator = [running |-> FALSE, timers |-> 0, noop |-> FALSE]
    /\ tick = IdleTick
    /\ used = [ticks |-> 0, events |-> 0, ignored |-> FALSE,
              dropped |-> FALSE]
    /\ trace = [s \in TeamSymbols |-> NoTrace]

Init ==
    /\ files = [s \in Symbols |-> AbsentFile]
    /\ lock = FALSE
    /\ waiters = <<>>
    /\ pending = {}
    /\ cur = IdleTask
    /\ issued = 0
    /\ now = 0
    /\ faults = 0
    /\ log = [s \in Symbols |-> <<>>]
    /\ InitEngine

\* ---------------------------------------------------------- event loop
\* a caller makes call c: its coroutine is ready to run.  The loop
\* dispatches events only while no coroutine is running.
Issue(c) ==
    /\ ~Running
    /\ issued < MaxCalls
    /\ Cardinality(pending) < MaxPending
    /\ NewTask(c) \notin pending
    /\ pending' = pending \cup {NewTask(c)}
    /\ issued' = issued + 1
    /\ UNCHANGED <<files, lock, waiters, cur, now, faults, log, engineVars>>

\* the loop runs a ready coroutine
Start(r) ==
    /\ ~Running
    /\ r \in Runnable
    /\ cur' = [r EXCEPT !.st = "running"]
    /\ pending' = pending \ {r}
    /\ waiters' = SelectSeq(waiters, LAMBDA w : w # r)
    /\ UNCHANGED <<files, lock, issued, now, faults, log, engineVars>>

\* ------------------------------------------------ _read_stock_data
\* `if not os.path.exists(stock_file): return None`
ReadExists ==
    /\ Running
    /\ cur.pc = "read"
    /\ cur' = IF files[cur.sym].kind = "absent"
              THEN AfterRead([cur EXCEPT !.data = NoneVal])
              ELSE [cur EXCEPT !.pc = "r_lock"]
    /\ UNCHANGED <<files, lock, waiters, pending, issued, now, faults, log, engineVars>>

\* `async with self._lock`, entry: asyncio.Lock.acquire takes a free lock
\* nobody waits for without suspending; otherwise the coroutine joins the
\* waiters and gives up the event loop until a release wakes it
Acquire ==
    /\ Running
    /\ cur.pc \in {"r_lock", "w_lock"}
    /\ IF cur.woken \/ (~lock /\ waiters = <<>>)
       THEN /\ lock' = TRUE
            /\ waiters' = waiters
            /\ cur' = [cur EXCEPT !.woken = FALSE,
                                  !.pc = IF @ = "r_lock" THEN "r_load"
                                         ELSE "w_dump"]
       ELSE /\ lock' = lock
            /\ waiters' = Append(waiters, [cur EXCEPT !.st = "waiting"])
            /\ cur' = IdleTask
    /\ UNCHANGED <<files, pending, issued, now, faults, log, engineVars>>

\* `return json.load(f)`, or None on JSONDecodeError / IOError
ReadLoad ==
    /\ Running
    /\ cur.pc = "r_load"
    /\ cur' = [cur EXCEPT !.data = ReadStockData(files[cur.sym]),
                          !.pc = "r_unlock"]
    /\ UNCHANGED <<files, lock, waiters, pending, issued, now, faults, log, engineVars>>

\* mutant of Release: the read is a real suspension point (as with an
\* awaited file read): after _read_stock_data the coroutine gives up the
\* event loop and is resumed later
ReleaseAndYield ==
    /\ Running
    /\ cur.pc \in {"r_unlock", "w_unlock"}
    /\ lock' = FALSE
    /\ waiters' = IF waiters = <<>> THEN waiters
                  ELSE [waiters EXCEPT ![1].woken = TRUE]
    /\ IF cur.pc = "r_unlock"
       THEN /\ pending' = pending \cup {[AfterRead(cur) EXCEPT !.st = "ready"]}
            /\ cur' = IdleTask
       ELSE /\ pending' = pending
            /\ cur' = AfterWrite(cur)
    /\ UNCHANGED <<files, issued, now, faults, log, engineVars>>

\* mutant of Release: no `async with`, the lock is released by a plain
\* self._lock.release() that an exception of the write skips
ReleaseUnlessRaised ==
    /\ Running
    /\ cur.pc \in {"r_unlock", "w_unlock"}
    /\ lock' = cur.err
    /\ waiters' = IF waiters = <<>> \/ cur.err THEN waiters
                  ELSE [waiters EXCEPT ![1].woken = TRUE]
    /\ cur' = IF cur.pc = "r_unlock" THEN AfterRead(cur) ELSE AfterWrite(cur)
    /\ UNCHANGED <<files, pending, issued, now, faults, log, engineVars>>

\* `async with self._lock`, exit: release the lock, wake the first waiter,
\* and go on in the caller (or propagate the exception of a failed write)
Release ==
    /\ Running
    /\ cur.pc \in {"r_unlock", "w_unlock"}
    /\ lock' = FALSE
    /\ waiters' = IF waiters = <<>> THEN waiters
                  ELSE [waiters EXCEPT ![1].woken = TRUE]
    /\ cur' = IF cur.pc = "r_unlock" THEN AfterRead(cur) ELSE AfterWrite(cur)
    /\ UNCHANGED <<files, pending, issued, now, faults, log, engineVars>>

\* mutant of WriteDump: an existing document is patched in place, only
\* its current_price is rewritten
WriteDumpInPlace ==
    /\ Running
    /\ cur.pc = "w_dump"
    /\ files' = IF IsDoc(files[cur.sym])
                THEN [files EXCEPT ![cur.sym].current_price =
                                       cur.data.current_price]
                ELSE [files EXCEPT ![cur.sym] = cur.data]
    /\ log' = [log EXCEPT ![cur.sym] =
                  Append(@, [op |-> cur.op, price |-> CallPrice(cur),
                             raced |-> Raced(cur), doc |-> cur.data])]
    /\ cur' = [cur EXCEPT !.pc = "w_unlock", !.wrote = TRUE]
    /\ UNCHANGED <<lock, waiters, pending, issued, now, faults, engineVars>>

\* ----------------------------------------------- _write_stock_data
\* open(stock_file, 'w') and json.dump(data, f) succeed
WriteDump ==
    /\ Running
    /\ cur.pc = "w_dump"
    /\ files' = [files EXCEPT ![cur.sym] = cur.data]
    /\ log' = [log EXCEPT ![cur.sym] =
                  Append(@, [op |-> cur.op, price |-> CallPrice(cur),
                             raced |-> Raced(cur), doc |-> cur.data])]
    /\ cur' = [cur EXCEPT !.pc = "w_unlock", !.wrote = TRUE]
    /\ UNCHANGED <<lock, waiters, pending, issued, now, faults, engineVars>>

\* the durable write fails: open raises and the file is as it was, or
\* json.dump raises after open has truncated the file
WriteFail ==
    /\ Running
    /\ cur.pc = "w_dump"
    /\ faults < MaxFaults
    /\ faults' = faults + 1
    /\ \E truncated \in BOOLEAN :
          files' = IF truncated
                   THEN [files EXCEPT ![cur.sym] = CorruptFile]
                   ELSE files
    /\ cur' = [cur EXCEPT !.pc = "w_unlock", !.err = TRUE]
    /\ UNCHANGED <<lock, waiters, pending, issued, now, log, engineVars>>

\* mutant of InitializeCheck: no os.path.exists test, every configured
\* symbol is seeded anew
InitializeAlways ==
    /\ Running
    /\ cur.pc = "check"
    /\ \E ts \in ClockReadings :
          /\ now' = ts
          /\ cur' = [cur EXCEPT !.data = NewStockData(cur.sym, ts),
                                !.pc = "w_lock"]
    /\ UNCHANGED <<files, lock, waiters, pending, issued, faults, log, engineVars>>

\* ------------------------------------------------------- initialize
\* `if not os.path.exists(stock_file)`: build the seeded document
InitializeCheck ==
    /\ Running
    /\ cur.pc = "check"
    /\ \E ts \in ClockReadings :
          /\ now' = ts
          /\ cur' = IF files[cur.sym].kind = "absent"
                    THEN [cur EXCEPT !.data = NewStockData(cur.sym, ts),
                                     !.pc = "w_lock"]
                    ELSE Advance(cur)
    /\ UNCHANGED <<files, lock, waiters, pending, issued, faults, log, engineVars>>

\* mutant of UpdatePriceModify: no `if not data: return`, a missing
\* document is created
UpdatePriceUpsert ==
    /\ Running
    /\ cur.pc = "modify"
    /\ cur.op = "update_price"
    /\ \E ts \in ClockReadings :
          /\ now' = ts
          /\ cur' = IF IsDoc(cur.data)
                    THEN [cur EXCEPT !.data = UpdatedData(@, cur.price, ts),
                                     !.pc = "w_lock"]
                    ELSE [cur EXCEPT !.data =
                                         [kind |-> "doc",
                                          team_name |-> cur.sym,
                                          symbol |-> cur.sym,
                                          starting_price |-> cur.price,
                                          current_price |-> cur.price,
                                          volatility |-> "lo",
                                          price_history |->
                                              <<Sample(ts, cur.price)>>],
                                     !.pc = "w_lock"]
    /\ UNCHANGED <<files, lock, waiters, pending, issued, faults, log, engineVars>>

\* ----------------------------------------- update_price, reset_prices
\* `if not data: return`, else set current_price, append, trim
UpdatePriceModify ==
    /\ Running
    /\ cur.pc = "modify"
    /\ cur.op = "update_price"
    /\ \E ts \in ClockReadings :
          /\ now' = ts
          /\ cur' = IF IsDoc(cur.data)
                    THEN [cur EXCEPT !.data = UpdatedData(@, cur.price, ts),
                                     !.pc = "w_lock"]
                    ELSE [cur EXCEPT !.pc = "ret"]
    /\ UNCHANGED <<files, lock, waiters, pending, issued, faults, log, engineVars>>

\* `if data:` set current_price to starting_price and append
ResetPricesModify ==
    /\ Running
    /\ cur.pc = "modify"
    /\ cur.op = "reset_prices"
    /\ \E ts \in ClockReadings :
          /\ now' = ts
          /\ cur' = IF IsDoc(cur.data)
                    THEN [cur EXCEPT !.data = ResetData(@, cur.sym, ts),
                                     !.pc = "w_lock"]
                    ELSE Advance(cur)
    /\ UNCHANGED <<files, lock, waiters, pending, issued, faults, log, engineVars>>

\* ------------------------------------------------------------- reads
\* the return value of get_price, get_stock_info, get_price_history
GetResult ==
    /\ Running
    /\ cur.pc = "result"
    /\ cur.op \in {"get_price", "get_stock_info", "get_price_history"}
    /\ cur' = [cur EXCEPT !.pc = "ret",
                          !.data = NoneVal,
                          !.out = CASE cur.op = "get_price" -> PriceOf(cur.data)
                                    [] cur.op = "get_stock_info" -> cur.data
                                    [] OTHER ->
                                         [kind |-> "list",
                                          v |-> HistoryOf(cur.data, cur.lim)]]
    /\ UNCHANGED <<files, lock, waiters, pending, issued, now, faults, log, engineVars>>

\* mutant of GetAllCollect: no `if stock_data:` / `if price is not None:`
\* test, the entry of an unreadable document is collected too
GetAllCollectUnfiltered ==
    /\ Running
    /\ cur.pc = "result"
    /\ cur.op \in {"get_all_prices", "get_all_stocks"}
    /\ LET sofar == IF cur.out.kind = "list" THEN cur.out.v ELSE <<>>
           item == IF cur.op = "get_all_prices"
                   THEN <<cur.sym, PriceOf(cur.data)>>
                   ELSE cur.data
       IN cur' = Advance([cur EXCEPT !.out = [kind |-> "list",
                                               v |-> Append(sofar, item)]])
    /\ UNCHANGED <<files, lock, waiters, pending, issued, now, faults, log, engineVars>>

\* one iteration of get_all_prices / get_all_stocks
GetAllCollect ==
    /\ Running
    /\ cur.pc = "result"
    /\ cur.op \in {"get_all_prices", "get_all_stocks"}
    /\ LET sofar == IF cur.out.kind = "list" THEN cur.out.v ELSE <<>>
           item == IF cur.op = "get_all_prices"
                   THEN <<cur.sym, PriceOf(cur.data)>>
                   ELSE cur.data
           got == IF IsDoc(cur.data) THEN Append(sofar, item) ELSE sofar
       IN cur' = Advance([cur EXCEPT !.out = [kind |-> "list", v |-> got]])
    /\ UNCHANGED <<files, lock, waiters, pending, issued, now, faults, log, engineVars>>

\* ------------------------------------------------------------ return
\* the coroutine returns or raises: the event loop is free again
Finish ==
    /\ Running
    /\ cur.pc \in {"ret", "raise"}
    /\ tick.pc # "update"
    /\ cur' = IdleTask
    /\ UNCHANGED <<files, lock, waiters, pending, issued, now, faults, log, engineVars>>

\* -------------------------------------------------- activity tracker
\* the tick in flight has the event loop: it is inside update_price, or
\* between its last update_price and its decay
TickRuns == tick.pc \in {"update", "decay"}

\* the event loop is free and one more event may reach the bot
EventArrives ==
    /\ ~Running
    /\ ~TickRuns
    /\ used.events < MaxEvents

\* the history variable after increment_activity(symbol)
Counted(tr, symbol) ==
    IF symbol \notin DOMAIN tr THEN tr
    ELSE IF tr[symbol].k = 0 THEN [tr EXCEPT ![symbol].n = @ + 1]
    ELSE [tr EXCEPT ![symbol].late = TRUE]

\* detect_team_from_message returned None
NoTeam == ""

\* the inbound messages as on_message sees them: whether the message has a
\* guild (it is no direct message), what database.check_message_cooldown
\* answers for its author, and what detect_team_from_message returns
Messages ==
    [guild : BOOLEAN, can_influence : BOOLEAN, team : Symbols \cup {NoTeam}]

\* on_message reaches market.increment_activity(team_symbol)
Qualifies(message) ==
    message.guild /\ message.can_influence /\ message.team # NoTeam

\* mutant of OnMessage: the answer of the cooldown check is not tested
OnMessageNoCooldown(message) ==
    /\ EventArrives
    /\ LET counts == message.guild /\ message.team # NoTeam
       IN /\ activity_scores' =
                 IF counts
                 THEN IncrementActivity(activity_scores, message.team)
                 ELSE activity_scores
          /\ trace' = IF counts THEN Counted(trace, message.team) ELSE trace
          /\ used' = [used EXCEPT
                          !.events = @ + 1,
                          !.ignored = @ \/ (counts /\ message.team
                                                \notin DOMAIN activity_scores),
                          !.dropped = @ \/ ~counts]
          /\ tick' = IF tick.pc = "idle" \/ ~counts THEN tick
                      ELSE [tick EXCEPT !.heard = TRUE]
    /\ UNCHANGED <<files, lock, waiters, pending, cur, issued, now, faults,
                   log, simulator>>

\* on_message: a direct message, a message of an author in cooldown and a
\* message without a team return early; any other message calls
\* market.increment_activity(team_symbol), once
OnMessage(message) ==
    /\ EventArrives
    /\ LET counts == Qualifies(message)
       IN /\ activity_scores' =
                 IF counts
                 THEN IncrementActivity(activity_scores, message.team)
                 ELSE activity_scores
          /\ trace' = IF counts THEN Counted(trace, message.team) ELSE trace
          /\ used' = [used EXCEPT
                          !.events = @ + 1,
                          !.ignored = @ \/ (counts /\ message.team
                                                \notin DOMAIN activity_scores),
                          !.dropped = @ \/ ~counts]
          /\ tick' = IF tick.pc = "idle" \/ ~counts THEN tick
                      ELSE [tick EXCEPT !.heard = TRUE]
    /\ UNCHANGED <<files, lock, waiters, pending, cur, issued, now, faults,
                   log, simulator>>

\* reset_activity: the administrative reset of all scores
ResetActivity ==
    /\ EventArrives
    /\ activity_scores' = NewActivityScores
    /\ trace' = [s \in TeamSymbols |-> NoTrace]
    /\ used' = [used EXCEPT !.events = @ + 1]
    /\ UNCHANGED <<files, lock, waiters, pending, cur, issued, now, faults,
                   log, simulator, tick>>

\* ------------------------------------------------------- price engine
\* mutant of StartSimulator: no test of the running state, every call
\* starts a timer
StartSimulatorAgain ==
    /\ EventArrives
    /\ simulator' = [running |-> TRUE, timers |-> simulator.timers + 1,
                      noop |-> simulator.running]
    /\ used' = [used EXCEPT !.events = @ + 1]
    /\ UNCHANGED <<files, lock, waiters, pending, cur, issued, now, faults,
                   log, activity_scores, tick, trace>>

\* on_ready: market_simulator.simulator.start(); Stopped -> Running and
\* the recurring timer is armed, a no-op while Running
StartSimulator ==
    /\ EventArrives
    /\ simulator' = IF simulator.running
                     THEN [simulator EXCEPT !.noop = TRUE]
                     ELSE [running |-> TRUE, timers |-> simulator.timers + 1,
                           noop |-> FALSE]
    /\ used' = [used EXCEPT !.events = @ + 1]
    /\ UNCHANGED <<files, lock, waiters, pending, cur, issued, now, faults,
                   log, activity_scores, tick, trace>>

\* mutant of StopSimulator: stop cancels the tick in flight
StopSimulatorCancelling ==
    /\ EventArrives
    /\ simulator' = IF simulator.running
                     THEN [running |-> FALSE, timers |-> 0, noop |-> FALSE]
                     ELSE [simulator EXCEPT !.noop = TRUE]
    /\ tick' = IdleTick
    /\ used' = [used EXCEPT !.events = @ + 1]
    /\ UNCHANGED <<files, lock, waiters, pending, cur, issued, now, faults,
                   log, activity_scores, trace>>

\* close: market_simulator.simulator.stop(); Running -> Stopped and the
\* timer is disarmed, a no-op while Stopped; a tick in flight goes on
StopSimulator ==
    /\ EventArrives
    /\ simulator' = IF simulator.running
                     THEN [running |-> FALSE, timers |-> 0, noop |-> FALSE]
                     ELSE [simulator EXCEPT !.noop = TRUE]
    /\ used' = [used EXCEPT !.events = @ + 1]
    /\ UNCHANGED <<files, lock, waiters, pending, cur, issued, now, faults,
                   log, activity_scores, tick, trace>>

\* the recurring timer fires: a tick begins, one at a time
TimerFire ==
    /\ ~Running
    /\ simulator.timers > 0
    /\ tick.pc = "idle"
    /\ used.ticks < MaxTicks
    /\ tick' = [IdleTick EXCEPT !.pc = "wait", !.idx = 1]
    /\ used' = [used EXCEPT !.ticks = @ + 1]
    /\ UNCHANGED <<files, lock, waiters, pending, cur, issued, now, faults,
                   log, activity_scores, simulator, trace>>

\* the minimum price floor of the engine's formula
PriceFloor == 1

\* the random drift of one tick, its spread growing with the volatility
Drifts(volatility) == IF volatility = "hi" THEN {-2} ELSE {-1, 1}

\* the engine's formula: drift, shifted upward for an active symbol,
\* clamped to the floor
NewPrice(price, score, drift) ==
    LET bias == IF score.num > 0 THEN 1 ELSE 0
        raw == price + drift + bias
    IN IF raw < PriceFloor THEN PriceFloor ELSE raw

\* mutant of TickAdvance: the tick goes to its decay after one symbol
TickAdvanceEarlyDecay(t) == [t EXCEPT !.pc = "decay"]

\* the tick's next symbol, or its decay after the last one
TickAdvance(t) ==
    IF t.idx < Len(TeamOrder)
    THEN [t EXCEPT !.idx = @ + 1, !.pc = "wait"]
    ELSE [t EXCEPT !.pc = "decay"]

\* tick, steps 1 to 3 for one symbol: read the document and the score,
\* compute the new price and, when it differs, call update_price; a
\* symbol whose document is unreadable is skipped
TickCompute ==
    /\ ~Running
    /\ tick.pc = "wait"
    /\ LET symbol == TeamOrder[tick.idx]
           data == ReadStockData(files[symbol])
           score == GetActivityScore(activity_scores, symbol)
       IN IF ~IsDoc(data)
          THEN /\ tick' = TickAdvance(tick)
               /\ cur' = cur
          ELSE \E drift \in Drifts(data.volatility) :
                  LET new_price == NewPrice(data.current_price, score, drift)
                  IN IF new_price = data.current_price
                     THEN /\ tick' = TickAdvance(tick)
                          /\ cur' = cur
                     ELSE /\ tick' = [tick EXCEPT !.pc = "update"]
                          /\ cur' = [NewTask(Call("update_price", symbol,
                                                  new_price, NoLimit))
                                        EXCEPT !.st = "running"]
    /\ UNCHANGED <<files, lock, waiters, pending, issued, now, faults, log,
                   activity_scores, simulator, used, trace>>

\* mutant of TickAfterUpdate: the exception of update_price leaves the
\* tick, and the timer task dies with it
TickAfterUpdateAborting ==
    /\ Running
    /\ cur.pc \in {"ret", "raise"}
    /\ tick.pc = "update"
    /\ cur' = IdleTask
    /\ tick' = IF cur.err THEN IdleTick
                ELSE TickAdvance([tick EXCEPT !.wrote = @ \cup {cur.sym}])
    /\ simulator' = IF cur.err THEN [simulator EXCEPT !.timers = 0]
                     ELSE simulator
    /\ UNCHANGED <<files, lock, waiters, pending, issued, now, faults, log,
                   activity_scores, used, trace>>

\* tick, step 3: update_price has returned or raised; the error of one
\* symbol is caught and logged, and the tick goes on
TickAfterUpdate ==
    /\ Running
    /\ cur.pc \in {"ret", "raise"}
    /\ tick.pc = "update"
    /\ cur' = IdleTask
    /\ tick' = IF cur.err
                THEN TickAdvance([tick EXCEPT !.failed = @ \cup {cur.sym}])
                ELSE TickAdvance([tick EXCEPT !.wrote = @ \cup {cur.sym}])
    /\ UNCHANGED <<files, lock, waiters, pending, issued, now, faults, log,
                   activity_scores, simulator, used, trace>>

\* tick, steps 4 and 5: market.decay_activity(), once, after the price
\* writes; the deltas go to the notifier and the tick is over
TickDecay ==
    /\ ~Running
    /\ tick.pc = "decay"
    /\ activity_scores' = DecayActivity(activity_scores)
    /\ trace' = [s \in DOMAIN trace |-> [trace[s] EXCEPT !.k = @ + 1]]
    /\ tick' = IdleTick
    /\ UNCHANGED <<files, lock, waiters, pending, cur, issued, now, faults,
                   log, simulator, used>>

\* the bot is up: setup_hook has run initialize (every document seeded)
\* and on_ready has started the engine
InitAfterReady ==
    /\ files = [s \in Symbols |->
                   IF s \in TeamSymbols THEN NewStockData(s, 0)
                   ELSE AbsentFile]
    /\ log = [s \in Symbols |->
                 IF s \in TeamSymbols
                 THEN <<[op |-> "initialize",
                         price |-> TEAMS[s].starting_price,
                         raced |-> FALSE, doc |-> NewStockData(s, 0)]>>
                 ELSE <<>>]
    /\ lock = FALSE
    /\ waiters = <<>>
    /\ pending = {}
    /\ cur = IdleTask
    /\ issued = 0
    /\ now = 0
    /\ faults = 0
    /\ activity_scores = NewActivityScores
    /\ simulator = [running |-> TRUE, timers |-> 1, noop |-> FALSE]
    /\ tick = IdleTick
    /\ used = [ticks |-> 0, events |-> 0, ignored |-> FALSE,
              dropped |-> FALSE]
    /\ trace = [s \in TeamSymbols |-> NoTrace]

NextEngine ==
    \/ ReadExists
    \/ Acquire
    \/ ReadLoad
    \/ Release
    \/ WriteDump
    \/ WriteFail
    \/ UpdatePriceModify
    \/ \E message \in Messages : OnMessage(message)
    \/ ResetActivity
    \/ StartSimulator
    \/ StopSimulator
    \/ TimerFire
    \/ TickCompute
    \/ TickAfterUpdate
    \/ TickDecay

\* the running bot: the price engine and the activity tracker on the
\* event loop, the store called by the ticks
SpecEngine == InitAfterReady /\ [][NextEngine]_vars

Next ==
    \/ \E c \in Calls : Issue(c)
    \/ \E r \in Runnable : Start(r)
    \/ ReadExists
    \/ Acquire
    \/ ReadLoad
    \/ Release
    \/ WriteDump
    \/ WriteFail
    \/ InitializeCheck
    \/ UpdatePriceModify
    \/ ResetPricesModify
    \/ GetResult
    \/ GetAllCollect
    \/ Finish

Spec == Init /\ [][Next]_vars

\* a step of the event loop: it runs a ready coroutine, or the running
\* coroutine executes its next statement
LoopStep ==
    \/ \E r \in Runnable : Start(r)
    \/ ReadExists
    \/ Acquire
    \/ ReadLoad
    \/ Release
    \/ WriteDump
    \/ WriteFail
    \/ InitializeCheck
    \/ UpdatePriceModify
    \/ ResetPricesModify
    \/ GetResult
    \/ GetAllCollect
    \/ Finish

\* one call of each path through _read_stock_data and _write_stock_data:
\* the calls with one price and without a limit
LockCalls ==
    {c \in Calls : /\ c.price \in {0, 1}
                   /\ c.lim = NoLimit
                   /\ c.op \notin {"get_price", "get_all_prices"}}

NextFair ==
    \/ \E c \in LockCalls : Issue(c)
    \/ LoopStep

\* the store on an event loop that keeps running: while a coroutine is
\* ready or running, the loop takes a step (callers need not call)
FairSpec == Init /\ [][NextFair]_vars /\ WF_vars(LoopStep)

\* the bot after setup_hook (initialize has seeded every document) and
\* one counted message for the first team, the price engine not running
InitTracked ==
    /\ files = [s \in Symbols |->
                   IF s \in TeamSymbols THEN NewStockData(s, 0)
                   ELSE AbsentFile]
    /\ log = [s \in Symbols |->
                 IF s \in TeamSymbols
                 THEN <<[op |-> "initialize",
                         price |-> TEAMS[s].starting_price,
                         raced |-> FALSE, doc |-> NewStockData(s, 0)]>>
                 ELSE <<>>]
    /\ lock = FALSE
    /\ waiters = <<>>
    /\ pending = {}
    /\ cur = IdleTask
    /\ issued = 0
    /\ now = 0
    /\ faults = 0
    /\ activity_scores = IncrementActivity(NewActivityScores, TeamOrder[1])
    /\ simulator = [running |-> FALSE, timers |-> 0, noop |-> FALSE]
    /\ tick = IdleTick
    /\ used = [ticks |-> 0, events |-> 1, ignored |-> FALSE,
               dropped |-> FALSE]
    /\ trace = Counted([s \in TeamSymbols |-> NoTrace], TeamOrder[1])

\* the calls of the administrative commands that write prices
PriceCalls == {c \in Calls : c.op \in {"update_price", "reset_prices"}}

NextTracked ==
    \/ \E c \in PriceCalls : Issue(c)
    \/ \E r \in Runnable : Start(r)
    \/ ReadExists
    \/ Acquire
    \/ ReadLoad
    \/ Release
    \/ WriteDump
    \/ WriteFail
    \/ UpdatePriceModify
    \/ ResetPricesModify
    \/ Finish

\* the store under the price-writing calls while a score is above 0
SpecTracked == InitTracked /\ [][NextTracked]_vars

\* ------------------------------------------------------------ claims
\* the prices of a sequence of samples or of log entries
PricesOf(seq) == [i \in 1..Len(seq) |-> seq[i].price]

Min(a, b) == IF a < b THEN a ELSE b

\* the last n elements of seq, all of it when it has fewer
LastN(seq, n) == SubSeq(seq, Len(seq) - Min(n, Len(seq)) + 1, Len(seq))

\* update_price has persisted its document and is about to return
UpdateReturned ==
    Running /\ cur.op = "update_price" /\ cur.pc = "ret" /\ cur.wrote

\* C1: when an update_price on an existing document has completed, the
\* document's price_history has at most H entries and they are the most
\* recent H samples persisted for the symbol (the seed sample while it
\* fits), in call order, oldest first.
C1_HistoryIsMostRecentH ==
    UpdateReturned =>
        /\ IsDoc(files[cur.sym])
        /\ Len(files[cur.sym].price_history) <= PRICE_HISTORY_MAX
        /\ PricesOf(files[cur.sym].price_history) =
               LastN(PricesOf(log[cur.sym]), PRICE_HISTORY_MAX)

\* an update_price returns after more than H samples were persisted: the
\* seed sample has been evicted
C1_Witness ==
    /\ UpdateReturned
    /\ Len(log[cur.sym]) > PRICE_HISTORY_MAX
    /\ Len(files[cur.sym].price_history) = PRICE_HISTORY_MAX

\* C2: right after a successful update_price(symbol, p), get_price(symbol)
\* returns p and the last price_history entry has price p.
C2_PriceIsLastSample ==
    UpdateReturned =>
        /\ PriceOf(ReadStockData(files[cur.sym])) =
               [kind |-> "int", v |-> cur.price]
        /\ files[cur.sym].price_history # <<>>
        /\ files[cur.sym].price_history[Len(files[cur.sym].price_history)].price
               = cur.price

\* an update_price with a price other than the one stored before returns
C2_Witness ==
    /\ UpdateReturned
    /\ Len(log[cur.sym]) >= 2
    /\ log[cur.sym][Len(log[cur.sym]) - 1].price # cur.price

\* the two latest durable writes of symbol s were update_price calls, and
\* the coroutine of the later one is about to return
TwoUpdatesDone(s) ==
    /\ UpdateReturned
    /\ cur.sym = s
    /\ Len(log[s]) >= 2
    /\ log[s][Len(log[s])].op = "update_price"
    /\ log[s][Len(log[s]) - 1].op = "update_price"

\* C3: once two update_price calls (a, then b) on one symbol have both
\* finished, the document's current_price equals the price of its last
\* history entry and is one of a and b.
C3_NoCrossOfTwoUpdates ==
    \A s \in TeamSymbols :
        TwoUpdatesDone(s) =>
            /\ IsDoc(files[s])
            /\ files[s].current_price =
                   files[s].price_history[Len(files[s].price_history)].price
            /\ files[s].current_price \in
                   {log[s][Len(log[s]) - 1].price, cur.price}

\* both calls were pending together (the second was ready while the first
\* ran), carried different prices, and no write failed
C3_Witness ==
    \E s \in TeamSymbols :
        /\ TwoUpdatesDone(s)
        /\ log[s][Len(log[s]) - 1].raced
        /\ log[s][Len(log[s]) - 1].price # cur.price
        /\ faults = 0

\* C4: no persisted sample is lost: a document's price_history ends with
\* the samples of the most recent calls that wrote it, as many as H holds,
\* in the order in which the calls took effect.
C4_NoLostUpdate ==
    \A s \in TeamSymbols :
        IsDoc(files[s]) =>
            LET h == PricesOf(files[s].price_history)
                k == Min(Len(log[s]), PRICE_HISTORY_MAX)
            IN /\ Len(h) >= k
               /\ LastN(h, k) = LastN(PricesOf(log[s]), k)

\* two update_price calls that were pending together have both written,
\* and the document holds a sample of each
C4_Witness ==
    \E s \in TeamSymbols :
        /\ IsDoc(files[s])
        /\ Len(log[s]) >= 2
        /\ log[s][Len(log[s])].op = "update_price"
        /\ log[s][Len(log[s]) - 1].op = "update_price"
        /\ log[s][Len(log[s]) - 1].raced
        /\ Len(files[s].price_history) >= 2

\* the documents that have been persisted for symbol s
Versions(s) == {log[s][i].doc : i \in 1..Len(log[s])}

ReadOps ==
    {"get_price", "get_stock_info", "get_price_history", "get_all_prices",
     "get_all_stocks"}

\* a read holds the `data` that _read_stock_data gave it
ReaderHoldsData ==
    Running /\ cur.op \in ReadOps /\ cur.pc \in {"r_unlock", "result"}

\* C5: the document a read obtains is a whole persisted version of it, and
\* every document on disk or in a reader's hands has current_price equal to
\* the price of its last price_history entry.
C5_ReadsSeeWholeDocuments ==
    /\ \A s \in TeamSymbols :
          IsDoc(files[s]) =>
              /\ files[s].price_history # <<>>
              /\ files[s].current_price =
                     files[s].price_history[Len(files[s].price_history)].price
    /\ (ReaderHoldsData /\ IsDoc(cur.data)) =>
          /\ cur.data \in Versions(cur.sym)
          /\ cur.data.current_price =
                 cur.data.price_history[Len(cur.data.price_history)].price

\* a read obtains a document while an update_price of the same symbol is
\* pending beside it
C5_Witness ==
    /\ ReaderHoldsData
    /\ IsDoc(cur.data)
    /\ Raced(cur)

\* C6: every document's price_history has at most H entries in every
\* reachable state.
C6_HistoryBounded ==
    \A s \in TeamSymbols :
        IsDoc(files[s]) => Len(files[s].price_history) <= PRICE_HISTORY_MAX

\* C7: no step of initialize changes a file that exists; it changes a file
\* only by creating, for a configured symbol that has none, the seeded
\* document (or, when that write fails, nothing readable).
C7_InitializeKeepsExisting ==
    [][(Running /\ cur.op = "initialize") =>
          \A s \in Symbols :
              files'[s] # files[s] =>
                  /\ s \in TeamSymbols
                  /\ files[s] = AbsentFile
                  /\ \/ files'[s] = CorruptFile
                     \/ \E ts \in 0..MaxClock :
                           files'[s] = NewStockData(s, ts)]_vars

\* initialize returns without having written, although a document has
\* been changed by update_price or reset_prices since it was seeded
C7_Witness ==
    /\ Running
    /\ cur.op = "initialize"
    /\ cur.pc = "ret"
    /\ ~cur.wrote
    /\ \E s \in TeamSymbols :
          IsDoc(files[s]) /\ Len(files[s].price_history) > 1

\* C8: when reset_prices returns, every configured symbol with a readable
\* document has current_price = starting_price, and its price_history is
\* the history it had before with exactly one sample at starting_price
\* appended.
C8_ResetAppendsOneSample ==
    (Running /\ cur.op = "reset_prices" /\ cur.pc = "ret") =>
        \A s \in TeamSymbols :
            IsDoc(files[s]) =>
                LET h == files[s].price_history
                    n == Len(log[s])
                IN /\ files[s].current_price = TEAMS[s].starting_price
                   /\ n >= 2
                   /\ log[s][n].op = "reset_prices"
                   /\ Len(h) = Len(log[s][n - 1].doc.price_history) + 1
                   /\ SubSeq(h, 1, Len(h) - 1) =
                          log[s][n - 1].doc.price_history
                   /\ h[Len(h)].price = TEAMS[s].starting_price

\* reset_prices returns after resetting a document whose price was not
\* the starting price
C8_Witness ==
    /\ Running
    /\ cur.op = "reset_prices"
    /\ cur.pc = "ret"
    /\ \E s \in TeamSymbols :
          /\ IsDoc(files[s])
          /\ Len(log[s]) >= 2
          /\ log[s][Len(log[s]) - 1].doc.current_price
                 # TEAMS[s].starting_price

\* C9: update_price for a symbol that has no document changes no file,
\* never reaches _write_stock_data and does not raise.
C9_UpdateOfMissingIsNoOp ==
    [][(Running /\ cur.op = "update_price" /\ files[cur.sym] = AbsentFile) =>
          /\ files' = files
          /\ cur'.pc \notin {"w_lock", "w_dump", "w_unlock", "raise"}
          /\ ~cur'.wrote]_vars

\* update_price returns for a symbol without a document while another
\* symbol has one
C9_Witness ==
    /\ Running
    /\ cur.op = "update_price"
    /\ cur.pc = "ret"
    /\ files[cur.sym] = AbsentFile
    /\ \E s \in TeamSymbols : IsDoc(files[s])

\* the readable documents of the configured symbols TeamOrder[i..], in
\* configuration order
RECURSIVE ReadableFrom(_)
ReadableFrom(i) ==
    IF i > Len(TeamOrder) THEN <<>>
    ELSE IF IsDoc(files[TeamOrder[i]])
    THEN <<files[TeamOrder[i]]>> \o ReadableFrom(i + 1)
    ELSE ReadableFrom(i + 1)

\* C10: a read never raises; for a missing or unparsable document get_price
\* and get_stock_info return None and get_price_history returns []; and
\* get_all_stocks / get_all_prices return the entries of exactly the
\* readable configured documents, in configuration order.
C10_UnreadableIsNotFound ==
    (Running /\ cur.op \in ReadOps) =>
        /\ cur.pc # "raise"
        /\ ~cur.err
        /\ (cur.pc = "ret" /\ cur.op \in {"get_price", "get_stock_info"}
                /\ ~IsDoc(files[cur.sym]))
              => cur.out = NoneVal
        /\ (cur.pc = "ret" /\ cur.op = "get_price_history"
                /\ ~IsDoc(files[cur.sym]))
              => cur.out = [kind |-> "list", v |-> <<>>]
        /\ (cur.pc = "ret" /\ cur.op = "get_all_stocks")
              => cur.out = [kind |-> "list", v |-> ReadableFrom(1)]
        /\ (cur.pc = "ret" /\ cur.op = "get_all_prices")
              => /\ cur.out.kind = "list"
                 /\ Len(cur.out.v) = Len(ReadableFrom(1))
                 /\ \A i \in 1..Len(cur.out.v) :
                       cur.out.v[i] =
                           <<ReadableFrom(1)[i].symbol,
                             [kind |-> "int",
                              v |-> ReadableFrom(1)[i].current_price]>>

\* get_all_stocks returns one document although another configured
\* symbol's file is corrupt
C10_Witness ==
    /\ Running
    /\ cur.op = "get_all_stocks"
    /\ cur.pc = "ret"
    /\ cur.out.kind = "list"
    /\ Len(cur.out.v) = 1
    /\ \E s \in TeamSymbols : files[s] = CorruptFile

\* the calls that write documents
WriteOps == {"initialize", "reset_prices", "update_price"}

\* C11: when update_price, reset_prices or initialize has returned for a
\* configured symbol, that symbol's document is not corrupt any more: the
\* write that follows a corruption recreates a well-formed document.
C11_WriteRepairsCorrupt ==
    (Running /\ cur.pc = "ret" /\ cur.op \in WriteOps) =>
        \A s \in TeamSymbols :
            (cur.op = "update_price" => s = cur.sym) =>
                files[s] # CorruptFile

\* C12: when reset_prices ends, normally or with the error of one symbol's
\* failed write, every other configured symbol with a readable document
\* has current_price = starting_price.
C12_ResetBatchSurvivesFailure ==
    (Running /\ cur.op = "reset_prices" /\ cur.pc \in {"ret", "raise"}) =>
        \A s \in TeamSymbols :
            (IsDoc(files[s]) /\ (cur.err => s # cur.sym)) =>
                files[s].current_price = TEAMS[s].starting_price

\* C13: once the durable write of an update_price or of one symbol's reset
\* has failed, the coroutine only leaves the lock and raises to its caller:
\* it never returns normally and never attempts a write again.
C13_WriteFailureIsSurfaced ==
    (Running /\ cur.err /\ cur.op \in {"update_price", "reset_prices"}) =>
        cur.pc \in {"w_unlock", "raise"}

\* an update_price raises to its caller after its write failed, and the
\* document it would have replaced is still the one persisted before
C13_Witness ==
    /\ Running
    /\ cur.op = "update_price"
    /\ cur.pc = "raise"
    /\ cur.err
    /\ ~cur.wrote
    /\ IsDoc(files[cur.sym])
    /\ files[cur.sym].current_price # cur.price

\* C16: every document's current_price is non-negative in every reachable
\* state.
C16_PriceNonNegative ==
    \A s \in TeamSymbols :
        IsDoc(files[s]) => files[s].current_price >= 0

\* the score n * d
TimesD(n) == Lowest([num |-> n * DecayNum, exp |-> 1])

\* the step that ends a tick: its decay
TickEnds == tick.pc # "idle" /\ tick'.pc = "idle"

\* C14: a tracked symbol that has had n increments since its score was 0
\* has score n while no decay has come, and score n * d after one decay
\* with no increment behind it; and the decay of a tick multiplies every
\* tracked score by d, tracks the same symbols as before and changes no
\* document.
C14_IncrementsThenDecay ==
    /\ [](\A s \in TeamSymbols :
             ~trace[s].late =>
                 /\ (trace[s].k = 0 =>
                        GetActivityScore(activity_scores, s)
                            = Score(trace[s].n))
                 /\ (trace[s].k = 1 =>
                        GetActivityScore(activity_scores, s)
                            = TimesD(trace[s].n)))
    /\ [][TickEnds =>
             /\ DOMAIN activity_scores' = DOMAIN activity_scores
             /\ \A s \in DOMAIN activity_scores :
                    activity_scores'[s] = TimesDecay(activity_scores[s])
             /\ files' = files]_vars

\* a symbol was incremented twice and then decayed once
C14_Witness ==
    \E s \in TeamSymbols :
        /\ trace[s] = [n |-> 2, k |-> 1, late |-> FALSE]
        /\ activity_scores[s] = TimesD(2)

\* C15: in every reachable state exactly the configured symbols are
\* tracked, increment_activity for a symbol that is not configured leaves
\* activity_scores as it is, and get_activity_score of it is 0.
C15_UnknownSymbolIgnored ==
    /\ DOMAIN activity_scores = TeamSymbols
    /\ IncrementActivity(activity_scores, UnknownSymbol) = activity_scores
    /\ GetActivityScore(activity_scores, UnknownSymbol) = Score(0)

\* increment_activity has been called for a symbol that is not configured
\* while a configured symbol had a score above 0
C15_Witness ==
    /\ used.ignored
    /\ \E s \in TeamSymbols : activity_scores[s].num > 0
    /\ \A s \in TeamSymbols : trace[s].k = 0

\* C17: at most one tick timer is active, exactly one while the engine is
\* Running and none while it is Stopped; and a start() while Running or a
\* stop() while Stopped leaves the state and the timers as they are.
C17_StartStopIdempotent ==
    /\ [](/\ simulator.timers <= 1
          /\ simulator.running <=> simulator.timers = 1)
    /\ [][simulator'.noop =>
             /\ simulator'.running = simulator.running
             /\ simulator'.timers = simulator.timers]_vars
    /\ [][(simulator'.noop /\ ~simulator.noop) =>
             /\ tick' = tick
             /\ files' = files
             /\ activity_scores' = activity_scores]_vars

\* start() has been called while the engine was Running (on_ready fired
\* again)
C17_Witness ==
    /\ simulator.running
    /\ simulator.noop
    /\ simulator.timers = 1

\* a step of the tick in flight or of the update_price it has called
TickStep ==
    \/ TickCompute
    \/ TickAfterUpdate
    \/ TickDecay
    \/ ReadExists
    \/ Acquire
    \/ ReadLoad
    \/ Release
    \/ WriteDump
    \/ UpdatePriceModify

\* C18: a tick, once begun, ends only by its decay after its last symbol,
\* whether or not stop() has been called meanwhile, and while it is in
\* flight it can always take its next step; a tick begins only while the
\* engine is Running; and every document has current_price equal to the
\* price of its last history entry.
C18_StopLetsTickFinish ==
    /\ [][TickEnds => (tick.pc = "decay" /\ tick.idx = Len(TeamOrder))]_vars
    /\ [][(tick.pc = "idle" /\ tick'.pc # "idle") => simulator.running]_vars
    /\ [](tick.pc # "idle" => ENABLED TickStep)
    /\ [](\A s \in TeamSymbols :
             IsDoc(files[s]) =>
                 files[s].current_price =
                     files[s].price_history[Len(files[s].price_history)].price)

\* stop() was called while the tick was in flight, and the tick has since
\* written a price and reached its decay
C18_Witness ==
    /\ ~simulator.running
    /\ tick.pc = "decay"
    /\ tick.wrote # {}

\* C19: when a tick reaches its decay it has visited every configured
\* symbol, and every symbol whose update_price returned in it has its
\* computed price persisted, also when the update_price of another symbol
\* raised; the failed update ends neither the tick nor the timer: the
\* timer stays armed while the engine is Running.
C19_TickIsolatesFailure ==
    /\ [](tick.pc = "decay" =>
             /\ tick.idx = Len(TeamOrder)
             /\ \A s \in tick.wrote :
                    /\ IsDoc(files[s])
                    /\ log[s][Len(log[s])].op = "update_price"
                    /\ files[s] = log[s][Len(log[s])].doc)
    /\ [](simulator.running => simulator.timers = 1)
    /\ [][(tick.pc = "update" /\ cur.err /\ tick'.pc # "update") =>
             /\ tick'.pc \in {"wait", "decay"}
             /\ cur.sym \in tick'.failed
             /\ simulator' = simulator]_vars

\* the update_price of the first symbol raised, the second symbol has
\* been updated in the same tick
C19_Witness ==
    /\ tick.pc = "decay"
    /\ tick.failed = {TeamOrder[1]}
    /\ tick.wrote = {TeamOrder[2]}
    /\ simulator.running

\* C20: the scores are decayed only by the step that ends a tick, which
\* comes after the tick's last symbol with no update_price under way and
\* multiplies each score, increments that arrived during the tick
\* included, by d once; every other step leaves a score as it is, adds 1
\* to it or resets it; and the price a tick hands to update_price is
\* computed from the score as it is at that moment.
C20_DecayOnceAfterWrites ==
    /\ [][TickEnds =>
             /\ tick.pc = "decay"
             /\ tick.idx = Len(TeamOrder)
             /\ ~Running
             /\ activity_scores' =
                    [s \in TeamSymbols |-> TimesDecay(activity_scores[s])]]_vars
    /\ [][~TickEnds =>
             \A s \in TeamSymbols :
                 activity_scores'[s] \in
                     {activity_scores[s], PlusOne(activity_scores[s]),
                      Score(0)}]_vars
    /\ [][(tick.pc = "wait" /\ tick'.pc = "update") =>
             LET s == TeamOrder[tick.idx]
             IN /\ cur'.sym = s
                /\ cur'.price \in
                       {NewPrice(files[s].current_price, activity_scores[s], d) :
                           d \in Drifts(files[s].volatility)}]_vars

\* an increment arrived while the tick was in flight, the tick has written
\* a price and is about to decay a score above 0
C20_Witness ==
    /\ tick.pc = "decay"
    /\ tick.heard
    /\ tick.wrote # {}
    /\ \E s \in TeamSymbols :
          activity_scores[s].num > 0 /\ trace[s].k = 0

\* get_price_history is about to return
HistoryReturned ==
    Running /\ cur.op = "get_price_history" /\ cur.pc = "ret"

\* C21: get_price_history(symbol, limit) returns, oldest first, the most
\* recent min(limit, length) samples of the document's price_history for
\* every limit that is given (0 and limits above the length included), the
\* whole price_history when no limit is given, and [] when the symbol has
\* no readable document.
C21_HistoryLimit ==
    HistoryReturned =>
        /\ cur.out.kind = "list"
        /\ cur.out.v =
               IF ~IsDoc(files[cur.sym]) THEN <<>>
               ELSE IF cur.lim.given
               THEN LastN(files[cur.sym].price_history, cur.lim.n)
               ELSE files[cur.sym].price_history

\* the coroutine r of a mutating call has read a document for modification
\* and has not yet written it
ReadNotYetWritten(r) ==
    /\ r.op \in {"update_price", "reset_prices"}
    /\ IsDoc(r.data)
    /\ r.pc \in {"r_unlock", "modify", "w_lock", "w_dump"}

\* C22: a mutating call (update_price, one symbol's step of reset_prices)
\* holds self._lock from its read of the document to its write: whenever
\* its coroutine has read a document for modification and has not yet
\* written it, the coroutine is the running one and the lock is held.
C22_LockHeldReadToWrite ==
    /\ (Running /\ ReadNotYetWritten(cur)) => lock
    /\ \A i \in DOMAIN waiters : ~ReadNotYetWritten(waiters[i])

\* the tracked symbols whose score a step changes
Changed == {s \in TeamSymbols : activity_scores'[s] # activity_scores[s]}

\* C23: the handling of one inbound message changes the score of at most
\* one symbol, the team detected for the message, and adds exactly 1 to
\* it; it changes no score when the message is a direct message, when the
\* cooldown check of its author fails, or when no team is detected.
C23_MessageCountsOnce ==
    [][\A message \in Messages :
          OnMessage(message) =>
              /\ DOMAIN activity_scores' = DOMAIN activity_scores
              /\ Cardinality(Changed) <= 1
              /\ \A s \in Changed :
                     /\ s = message.team
                     /\ activity_scores'[s] = PlusOne(activity_scores[s])
              /\ (~message.guild \/ ~message.can_influence
                      \/ message.team = NoTeam) => Changed = {}]_vars

\* two messages have been handled: one was counted for its team, the
\* other was returned early on
C23_Witness ==
    /\ used.events = 2
    /\ used.dropped
    /\ ~used.ignored
    /\ \E s \in TeamSymbols :
          /\ activity_scores[s] = Score(1)
          /\ \A t \in TeamSymbols \ {s} : activity_scores[t] = Score(0)

\* the timestamps of h never decrease from one entry to the next
TimestampsAscend(h) ==
    \A i \in 1..(Len(h) - 1) : h[i].timestamp <= h[i + 1].timestamp

\* C24: in every reachable state every document's price_history is
\* non-empty and its timestamps are in non-decreasing order, whatever the
\* interleaving of the update_price and reset_prices calls (the clock
\* never goes back).
C24_HistoryOrdered ==
    \A s \in TeamSymbols :
        IsDoc(files[s]) =>
            /\ files[s].price_history # <<>>
            /\ TimestampsAscend(files[s].price_history)

\* a document was written by an update_price and then by a reset_prices,
\* and the clock has moved between its first and its last sample
C24_Witness ==
    \E s \in TeamSymbols :
        LET h == files[s].price_history
            n == Len(log[s])
        IN /\ IsDoc(files[s])
           /\ n >= 3
           /\ log[s][n].op = "reset_prices"
           /\ log[s][n - 1].op = "update_price"
           /\ Len(h) >= 2
           /\ h[1].timestamp < h[Len(h)].timestamp

\* the fields of a document that are set at its creation
FixedFields(d) ==
    [symbol |-> d.symbol, team_name |-> d.team_name,
     starting_price |-> d.starting_price, volatility |-> d.volatility]

\* C25: every document has the symbol, team_name, starting_price and
\* volatility it was created with, in every reachable state (update_price
\* and reset_prices change current_price and price_history only); and no
\* step of update_price(symbol, p) changes the file of another symbol or
\* an activity score.
C25_UpdateFrame ==
    /\ [](\A s \in TeamSymbols :
             (IsDoc(files[s]) /\ log[s] # <<>>) =>
                 /\ log[s][1].op = "initialize"
                 /\ FixedFields(files[s]) = FixedFields(log[s][1].doc))
    /\ [][(Running /\ cur.op = "update_price") =>
             /\ \A t \in Symbols \ {cur.sym} : files'[t] = files[t]
             /\ activity_scores' = activity_scores]_vars

\* an update_price has written a price other than the starting price to a
\* document that a reset_prices had written before, another symbol has a
\* document, and a score is above 0
C25_Witness ==
    /\ UpdateReturned
    /\ files[cur.sym].current_price # files[cur.sym].starting_price
    /\ \E i \in 1..Len(log[cur.sym]) : log[cur.sym][i].op = "reset_prices"
    /\ \E t \in TeamSymbols \ {cur.sym} : IsDoc(files[t])
    /\ \E t \in TeamSymbols : activity_scores[t].num > 0

\* no store call is under way: none is running, ready or waiting for the
\* lock
Quiet == ~Running /\ pending = {} /\ waiters = <<>>

\* C26: on an event loop that keeps running, the lock, once taken, is
\* released again (also by a read whose file does not parse and by a write
\* that raises), and every store call that has been issued completes: no
\* call is left running, ready or waiting for the lock for ever.
C26_LockReleasedCallsComplete ==
    /\ lock ~> ~lock
    /\ ~Quiet ~> (Quiet /\ ~lock)

\* a write has raised, the lock is free again, and another call is ready
\* to run
C26_Witness ==
    /\ Running
    /\ cur.pc = "raise"
    /\ cur.err
    /\ ~lock
    /\ Runnable # {}

\* C27: when the durable write of an update_price or of one symbol's reset
\* has failed, the symbol's file still holds the document persisted last
\* before the call, and get_stock_info(symbol) returns that document.
C27_FailedWriteKeepsDocument ==
    (Running /\ cur.err /\ cur.op \in {"update_price", "reset_prices"}) =>
        /\ log[cur.sym] # <<>>
        /\ ReadStockData(files[cur.sym]) = log[cur.sym][Len(log[cur.sym])].doc

====
